---- MODULE Spec2Model ----
(***************************************************************************)
(* Model of the discrete spaces of the `spaces` crate: Discrete, Binary    *)
(* and Naturals, their Space / BoundedSpace / FiniteSpace / Surjection     *)
(* implementations and the hand-written Deserialize of Discrete.           *)
(*                                                                         *)
(* A behaviour is one caller session: the caller constructs a space, calls *)
(* its methods, serialises it and deserialises records.  `last` holds the  *)
(* most recent call with its argument and its result.  A panic ends the    *)
(* session.                                                                *)
(***************************************************************************)
EXTENDS Integers, Sequences, FiniteSets, TLC

VARIABLES build, status, space, last, wire, wireFrom

vars == <<build, status, space, last, wire, wireFrom>>

(* ------------------------------- bounds -------------------------------- *)

\* usize::MAX of the modelled machine: usize values are 0..MaxUsize and
\* wrapping arithmetic is modulo MaxUsize + 1.
MaxUsize == 6

\* Longest record (number of entries / elements) handed to deserialize.
MaxEntries == 3

\* f64 inputs of the sign test are the integers -MaxFloat..MaxFloat (as
\* reals) together with the two infinities, negative zero and NaN.
MaxFloat == 2

Usize == 0..MaxUsize

Modulus == MaxUsize + 1

(* ------------------------------- values -------------------------------- *)

None == [tag |-> "None"]

Some(v) == [tag |-> "Some", val |-> v]

Ok(v) == [tag |-> "Ok", val |-> v]

Err(kind, what) == [tag |-> "Err", kind |-> kind, what |-> what]

Panic(msg) == [tag |-> "Panic", msg |-> msg]

Finite(n) == [tag |-> "Finite", n |-> n]

Infinite == [tag |-> "Infinite"]

NoSpace == [kind |-> "None"]

NoWire == [enc |-> "none"]

Builds == {"debug", "release"}

(* ------------------------------ Discrete ------------------------------- *)

\* rand's Range::new(low, high) as called by Discrete::new: the half-open
\* sampling range [low, high), which rand asserts to be non-empty
\* (low < high) and panics otherwise.
RngRange_new_unchecked(low, high) == Ok([low |-> low, high |-> high])

RngRange_new(low, high) ==
    IF low < high
    THEN Ok([low |-> low, high |-> high])
    ELSE Panic("Range::new called with low >= high")

\* Discrete::new: the struct literal { size, range: RngRange::new(0, size) }.
Discrete_new_shifted(size) ==
    LET r == RngRange_new(0, size + 1)
    IN  IF r.tag = "Ok"
        THEN Ok([kind |-> "Discrete", size |-> size, range |-> r.val])
        ELSE r

Discrete_new(size) ==
    LET r == RngRange_new(0, size)
    IN  IF r.tag = "Ok"
        THEN Ok([kind |-> "Discrete", size |-> size, range |-> r.val])
        ELSE r

Discrete_dim(d) == 1

Discrete_card(d) == Finite(d.size)

\* self.range.sample(rng): the values a uniform draw from [low, high) can give.
Discrete_sample_outcomes(d) == {v \in Usize : d.range.low <= v /\ v < d.range.high}

Discrete_inf(d) == Some(0)

\* `self.size - 1` on usize: with overflow checks (debug builds) the
\* subtraction panics when it underflows, without them (release builds) it
\* wraps around.
UsizeSub(a, b, bld) ==
    IF a >= b
    THEN Ok(a - b)
    ELSE IF bld = "debug"
         THEN Panic("attempt to subtract with overflow")
         ELSE Ok((a - b + Modulus) % Modulus)

Discrete_sup_size(d, bld) == Some(d.size)

Discrete_sup(d, bld) ==
    LET r == UsizeSub(d.size, 1, bld)
    IN  IF r.tag = "Ok" THEN Some(r.val) ELSE r

Discrete_contains_le(d, val) == val <= d.size

Discrete_contains(d, val) == val < d.size

\* FiniteSpace::range: the std::ops::Range value 0..self.size.
Discrete_range_from_one(d) == [start |-> 1, end |-> d.size]

Discrete_range(d) == [start |-> 0, end |-> d.size]

Discrete_map(d, val) == val

Discrete_eq(a, b) == a.size = b.size

\* Iterating a Range<usize>: start, start + 1, ... while below end.
RangeSeq(r) ==
    IF r.start < r.end
    THEN [i \in 1..(r.end - r.start) |-> r.start + i - 1]
    ELSE << >>

(* ------------------------------- Binary -------------------------------- *)

Binary_new == [kind |-> "Binary"]

Binary_dim(b) == 1

Binary_card(b) == Finite(2)

\* rng.gen() for bool: either value.
Binary_sample_outcomes(b) == BOOLEAN

Binary_inf(b) == Some(FALSE)

Binary_sup(b) == Some(TRUE)

Binary_contains(b, val) == TRUE

\* FiniteSpace::range: the std::ops::Range value false..true.
Binary_range(b) == [start |-> FALSE, end |-> TRUE]

\* The order of bool (false < true), as PartialOrd for bool defines it.
BoolLt(a, b) == a = FALSE /\ b = TRUE

BoolLe(a, b) == a = b \/ BoolLt(a, b)

\* The values of a Range<bool>: a half-open range holds start <= v < end.
\* (bool has no Step implementation, so membership is all a Range<bool>
\* offers as an enumeration.)
BoolRangeValues(r) == {v \in BOOLEAN : BoolLe(r.start, v) /\ BoolLt(v, r.end)}

\* An f64 is a class ("num", "inf" or "nan"), a sign bit and a magnitude.
F64Lit(n) == [cls |-> "num", sign |-> IF n < 0 THEN 1 ELSE 0,
              mag |-> IF n < 0 THEN 0 - n ELSE n]

F64Inf(sign) == [cls |-> "inf", sign |-> sign, mag |-> 0]

F64NaN == [cls |-> "nan", sign |-> 0, mag |-> 0]

F64NegZero == [cls |-> "num", sign |-> 1, mag |-> 0]

F64Values ==
    {F64Lit(n) : n \in (0 - MaxFloat)..MaxFloat}
        \cup {F64Inf(0), F64Inf(1), F64NaN, F64NegZero}

\* Position of a non-NaN f64 on the extended real line.
F64Key(x) ==
    LET m == IF x.cls = "inf" THEN MaxFloat + 1 ELSE x.mag
    IN  IF x.sign = 1 THEN 0 - m ELSE m

\* The f64 comparison `a > b`: false whenever an operand is NaN.
F64Gt(a, b) == a.cls # "nan" /\ b.cls # "nan" /\ F64Key(a) > F64Key(b)

F64Ge(a, b) == a.cls # "nan" /\ b.cls # "nan" /\ F64Key(a) >= F64Key(b)

Binary_map_bool(b, val) == val

Binary_map_f64_ge(b, val) == F64Ge(val, F64Lit(0))

Binary_map_f64(b, val) == F64Gt(val, F64Lit(0))

(* ------------------------------ Naturals ------------------------------- *)

\* u64 values, on the same scaled-down word as usize.
U64 == Usize

Naturals_new == [kind |-> "Naturals"]

Naturals_dim(n) == 1

Naturals_card(n) == Infinite

\* sample is unimplemented!(): a panic.
Naturals_sample(n) == Panic("not yet implemented")

Naturals_inf(n) == Some(0)

Naturals_sup_max(n) == Some(MaxUsize)

Naturals_sup(n) == None

Naturals_contains(n, val) == TRUE

(* --------------------------- trait dispatch ---------------------------- *)

Space_dim(s) ==
    CASE s.kind = "Discrete" -> Discrete_dim(s)
      [] s.kind = "Binary"   -> Binary_dim(s)
      [] s.kind = "Naturals" -> Naturals_dim(s)

Space_card(s) ==
    CASE s.kind = "Discrete" -> Discrete_card(s)
      [] s.kind = "Binary"   -> Binary_card(s)
      [] s.kind = "Naturals" -> Naturals_card(s)

Space_inf(s) ==
    CASE s.kind = "Discrete" -> Discrete_inf(s)
      [] s.kind = "Binary"   -> Binary_inf(s)
      [] s.kind = "Naturals" -> Naturals_inf(s)

Space_sup(s, bld) ==
    CASE s.kind = "Discrete" -> Discrete_sup(s, bld)
      [] s.kind = "Binary"   -> Binary_sup(s)
      [] s.kind = "Naturals" -> Naturals_sup(s)

Space_contains(s, val) ==
    CASE s.kind = "Discrete" -> Discrete_contains(s, val)
      [] s.kind = "Binary"   -> Binary_contains(s, val)
      [] s.kind = "Naturals" -> Naturals_contains(s, val)

Space_range(s) ==
    CASE s.kind = "Discrete" -> Discrete_range(s)
      [] s.kind = "Binary"   -> Binary_range(s)

\* The values of the space's Value type a caller passes to contains.
Values(s) ==
    CASE s.kind = "Discrete" -> Usize
      [] s.kind = "Binary"   -> BOOLEAN
      [] s.kind = "Naturals" -> U64

(* ---------------------------- serialisation ---------------------------- *)

\* derive(Serialize) with `range` skipped: the struct "Discrete" with the one
\* field size, written as a u64.
Discrete_serialize_with_range(d) ==
    [enc |-> "map",
     entries |-> <<[key |-> "size", val |-> d.size],
                   [key |-> "range", val |-> d.range.high]>>]

Discrete_serialize(d) ==
    [enc |-> "map", entries |-> <<[key |-> "size", val |-> d.size]>>]

\* const FIELDS
FIELDS == <<"size">>

\* Field names a record may carry.
Keys == {"size", "range"}

\* FieldVisitor::visit_str
Field_visit_str(value) ==
    IF value = "size"
    THEN Ok("Size")
    ELSE Err("unknown_field", value)

\* DiscreteVisitor::visit_seq over the elements of a positional record.
DiscreteVisitor_visit_seq(seq) ==
    IF Len(seq) = 0
    THEN Err("invalid_length", 0)
    ELSE Discrete_new(seq[1])

\* The `while let Some(key) = map.next_key()?` loop of visit_map, from entry
\* i on, with the local `size`; after the loop, Discrete::new or missing_field.
RECURSIVE VisitMapLoop(_, _, _)
VisitMapLoop(map, i, size) ==
    IF i > Len(map)
    THEN IF size.tag = "Some"
         THEN Discrete_new(size.val)
         ELSE Err("missing_field", "size")
    ELSE LET key == Field_visit_str(map[i].key)
         IN  IF key.tag = "Err"
             THEN key
             ELSE IF size.tag = "Some"
                  THEN Err("duplicate_field", "size")
                  ELSE VisitMapLoop(map, i + 1, Some(map[i].val))

\* DiscreteVisitor::visit_map
DiscreteVisitor_visit_map_last_wins(map) ==
    LET sizes == SelectSeq(map, LAMBDA e : e.key = "size")
    IN  IF Len(sizes) = 0
        THEN Err("missing_field", "size")
        ELSE Discrete_new(sizes[Len(sizes)].val)

DiscreteVisitor_visit_map(map) == VisitMapLoop(map, 1, None)

\* Discrete::deserialize is generic in its deserializer, and deserializers
\* differ in what they do when visit_seq has returned a value and elements of
\* the sequence are left unread: "json" (serde_json's from_str, from_slice,
\* from_reader) reports trailing characters, "value" (de::value's
\* SeqDeserializer, serde_json's from_value) reports an invalid length, and
\* "unchecked" (de::value's SeqAccessDeserializer, and any deserializer that
\* returns what visit_seq returns) makes no check.
Formats == {"json", "value", "unchecked"}

\* The deserializer's end-of-sequence step: v is what visit_seq returned, len
\* the number of elements of the sequence, of which visit_seq read one.
Deserializer_end_seq(fmt, len, v) ==
    IF len > 1 /\ fmt = "json"
    THEN Err("trailing_characters", len)
    ELSE IF len > 1 /\ fmt = "value"
         THEN Err("invalid_length", len)
         ELSE v

\* deserializer.deserialize_struct("Discrete", FIELDS, DiscreteVisitor): the
\* deserializer hands the record to visit_seq or to visit_map according to its
\* encoding; an error or a panic of the visitor is what it returns, and a
\* value of visit_seq goes through the end-of-sequence step.
Deserializer_deserialize_struct(rec, fmt) ==
    IF rec.enc = "seq"
    THEN LET v == DiscreteVisitor_visit_seq(rec.entries)
         IN  IF v.tag = "Ok"
             THEN Deserializer_end_seq(fmt, Len(rec.entries), v)
             ELSE v
    ELSE DiscreteVisitor_visit_map(rec.entries)

\* Discrete::deserialize
Discrete_deserialize(rec, fmt) == Deserializer_deserialize_struct(rec, fmt)

\* All sequences over S of length at most n.
SeqsUpTo(S, n) == UNION {[1..k -> S] : k \in 0..n}

\* The records a caller may hand to deserialize.
Inputs ==
    {[enc |-> "map", entries |-> es] :
        es \in SeqsUpTo([key : Keys, val : Usize], MaxEntries)}
    \cup
    {[enc |-> "seq", entries |-> es] : es \in SeqsUpTo(Usize, MaxEntries)}

(* ---------------------------- specification ---------------------------- *)

Init ==
    /\ build \in Builds
    /\ status = "running"
    /\ space = NoSpace
    /\ last = [op |-> "none"]
    /\ wire = NoWire
    /\ wireFrom = NoSpace

\* A call that returns `ret` or panics, leaving the space as it is.
Returns(op, arg, ret) ==
    /\ last' = [op |-> op, arg |-> arg, ret |-> ret]
    /\ status' = IF ret.tag = "Panic" THEN "panicked" ELSE status
    /\ UNCHANGED <<build, space, wire, wireFrom>>

\* A constructor call: the caller keeps the value it returns.
Constructs(op, arg, ret) ==
    /\ last' = [op |-> op, arg |-> arg, ret |-> ret]
    /\ IF ret.tag = "Ok"
       THEN space' = ret.val /\ status' = status
       ELSE /\ space' = space
            /\ status' = IF ret.tag = "Panic" THEN "panicked" ELSE status
    /\ UNCHANGED <<build, wire, wireFrom>>

NewDiscrete ==
    /\ status = "running"
    /\ \E size \in Usize : Constructs("Discrete::new", size, Discrete_new(size))

NewBinary ==
    /\ status = "running"
    /\ Constructs("Binary::new", 0, Ok(Binary_new))

NewNaturals ==
    /\ status = "running"
    /\ Constructs("Naturals", 0, Ok(Naturals_new))

Dim ==
    /\ status = "running"
    /\ space # NoSpace
    /\ Returns("dim", 0, Ok(Space_dim(space)))

Card ==
    /\ status = "running"
    /\ space # NoSpace
    /\ Returns("card", 0, Ok(Space_card(space)))

SampleDiscrete ==
    /\ status = "running"
    /\ space.kind = "Discrete"
    /\ \E v \in Discrete_sample_outcomes(space) : Returns("sample", 0, Ok(v))

SampleBinary ==
    /\ status = "running"
    /\ space.kind = "Binary"
    /\ \E v \in Binary_sample_outcomes(space) : Returns("sample", 0, Ok(v))

SampleNaturals ==
    /\ status = "running"
    /\ space.kind = "Naturals"
    /\ Returns("sample", 0, Naturals_sample(space))

Inf ==
    /\ status = "running"
    /\ space # NoSpace
    /\ Returns("inf", 0, Space_inf(space))

Sup ==
    /\ status = "running"
    /\ space # NoSpace
    /\ Returns("sup", 0, Space_sup(space, build))

Contains ==
    /\ status = "running"
    /\ space # NoSpace
    /\ \E v \in Values(space) :
         Returns("contains", v, Ok(Space_contains(space, v)))

Range ==
    /\ status = "running"
    /\ space.kind \in {"Discrete", "Binary"}
    /\ Returns("range", 0, Ok(Space_range(space)))

MapUsize ==
    /\ status = "running"
    /\ space.kind = "Discrete"
    /\ \E v \in Usize : Returns("map", v, Ok(Discrete_map(space, v)))

MapBool ==
    /\ status = "running"
    /\ space.kind = "Binary"
    /\ \E v \in BOOLEAN : Returns("map_bool", v, Ok(Binary_map_bool(space, v)))

MapF64 ==
    /\ status = "running"
    /\ space.kind = "Binary"
    /\ \E v \in F64Values : Returns("map_f64", v, Ok(Binary_map_f64(space, v)))

\* Serialising the Discrete the caller holds puts its record on the wire.
Serialize ==
    /\ status = "running"
    /\ space.kind = "Discrete"
    /\ wire' = Discrete_serialize(space)
    /\ wireFrom' = space
    /\ last' = [op |-> "serialize", arg |-> 0, ret |-> Ok(wire')]
    /\ UNCHANGED <<build, status, space>>

\* A call of Discrete::deserialize on the record rec, which was serialised
\* from the space `from` (NoSpace when it was not); the caller keeps the value
\* on success, and a structured error leaves the session running.
Deserializes(rec, fmt, from) ==
    LET ret == Discrete_deserialize(rec, fmt)
    IN  /\ last' = [op |-> "deserialize", arg |-> rec, fmt |-> fmt,
                    from |-> from, ret |-> ret]
        /\ IF ret.tag = "Ok"
           THEN space' = ret.val /\ status' = status
           ELSE /\ space' = space
                /\ status' = IF ret.tag = "Panic" THEN "panicked" ELSE status
        /\ UNCHANGED <<build, wire, wireFrom>>

\* Deserialising the record on the wire.
Deserialize ==
    /\ status = "running"
    /\ wire # NoWire
    /\ \E fmt \in Formats : Deserializes(wire, fmt, wireFrom)

Next ==
    \/ NewDiscrete
    \/ NewBinary
    \/ NewNaturals
    \/ Dim
    \/ Card
    \/ SampleDiscrete
    \/ SampleBinary
    \/ SampleNaturals
    \/ Inf
    \/ Sup
    \/ Contains
    \/ Range
    \/ MapUsize
    \/ MapBool
    \/ MapF64
    \/ Serialize
    \/ Deserialize

Spec == Init /\ [][Next]_vars

\* Discrete::deserialize as a function of its input: the session starts with
\* a record received from outside, and deserialises it.
InitDeser ==
    /\ build \in Builds
    /\ status = "running"
    /\ space = NoSpace
    /\ \E rec \in Inputs, fmt \in Formats :
           last = [op |-> "input", arg |-> rec, fmt |-> fmt]
    /\ wire = NoWire
    /\ wireFrom = NoSpace

DeserializeInput ==
    /\ status = "running"
    /\ last.op = "input"
    /\ Deserializes(last.arg, last.fmt, NoSpace)

NextDeser ==
    \/ DeserializeInput

SpecDeser == InitDeser /\ [][NextDeser]_vars

(* ------------------------------- claims -------------------------------- *)

\* The elements a Range<usize> yields, as a set.
Yielded(r) == {RangeSeq(r)[i] : i \in 1..Len(RangeSeq(r))}

\* C1: for every size > 0, Discrete::new(size) succeeds and stores size, and
\* on it card() is Finite(size), inf() is Some(0), sup() is Some(size - 1) and
\* contains(v) is (v < size) for every v, the values 0..=size among them.
C1_DiscreteBasics ==
    /\ (last.op = "Discrete::new" /\ last.arg > 0) =>
           (last.ret.tag = "Ok" /\ space.kind = "Discrete" /\ space.size = last.arg)
    /\ (space.kind = "Discrete" /\ space.size > 0) =>
           /\ last.op = "card" => last.ret = Ok(Finite(space.size))
           /\ last.op = "inf" => last.ret = Some(0)
           /\ last.op = "sup" => last.ret = Some(space.size - 1)
           /\ last.op = "contains" => last.ret = Ok(last.arg < space.size)

C1_Witness ==
    /\ space.kind = "Discrete"
    /\ space.size > 1
    /\ last.op = "contains"
    /\ last.arg = space.size
    /\ last.ret = Ok(FALSE)

\* C2: every value a space produces by sample(), by enumerating range(), or
\* as the Some(..) of inf() or sup() satisfies that space's contains().
C2_ProducedValuesContained ==
    /\ (last.op = "sample" /\ last.ret.tag = "Ok") =>
           Space_contains(space, last.ret.val)
    /\ (last.op \in {"inf", "sup"} /\ last.ret.tag = "Some") =>
           Space_contains(space, last.ret.val)
    /\ (last.op = "range" /\ space.kind = "Discrete") =>
           \A v \in Yielded(last.ret.val) : Space_contains(space, v)
    /\ (last.op = "range" /\ space.kind = "Binary") =>
           \A v \in BoolRangeValues(last.ret.val) : Space_contains(space, v)

C2_Witness ==
    /\ space.kind = "Discrete"
    /\ space.size > 1
    /\ last.op = "sup"
    /\ last.ret = Some(space.size - 1)

\* C3: every value sample() returns on Discrete::new(size) lies in [0, size),
\* and every value of [0, size) is a possible outcome of the next sample().
C3_SampleInRange ==
    space.kind = "Discrete" =>
        /\ last.op = "sample" =>
               (last.ret.tag = "Ok" /\ 0 <= last.ret.val /\ last.ret.val < space.size)
        /\ status = "running" =>
               \A v \in {u \in Usize : u < space.size} :
                   ENABLED (SampleDiscrete /\ last'.ret = Ok(v))

C3_Witness ==
    /\ space.kind = "Discrete"
    /\ space.size >= 3
    /\ last.op = "sample"
    /\ last.ret = Ok(space.size - 1)

\* C4: deserialising the record that serialising a Discrete produced yields a
\* Discrete equal (by size) to the one serialised.
C4_RoundTrip ==
    (last.op = "deserialize" /\ last.from.kind = "Discrete") =>
        (last.ret.tag = "Ok" /\ Discrete_eq(last.ret.val, last.from))

C4_Witness ==
    /\ last.op = "deserialize"
    /\ last.from.kind = "Discrete"
    /\ last.from.size = 3
    /\ last.ret.tag = "Ok"
    /\ space.kind = "Discrete"
    /\ space.size = 3

\* The entries of a named record that carry the field size.
SizeEntries(es) == SelectSeq(es, LAMBDA e : e.key = "size")

\* The error kinds with which a deserializer refuses a positional record
\* that has elements after size.
ExtraKinds(fmt) ==
    CASE fmt = "json"      -> {"trailing_characters"}
      [] fmt = "value"     -> {"invalid_length"}
      [] fmt = "unchecked" -> {}

\* The error kinds a record calls for.  `missing` is the kind that a
\* positional record without its size element calls for, `extra` the kinds
\* that a positional record with elements after size calls for.
KindsFor(rec, missing, extra) ==
    IF rec.enc = "seq"
    THEN IF Len(rec.entries) = 0
         THEN {missing}
         ELSE IF Len(rec.entries) > 1 THEN extra ELSE {}
    ELSE (IF Len(SizeEntries(rec.entries)) = 0 THEN {"missing_field"} ELSE {})
         \cup (IF Len(SizeEntries(rec.entries)) > 1 THEN {"duplicate_field"} ELSE {})
         \cup (IF \E i \in 1..Len(rec.entries) : rec.entries[i].key # "size"
               THEN {"unknown_field"} ELSE {})

\* The size value a record carries: its first element, or its first size entry.
SizeRead(rec) ==
    IF rec.enc = "seq"
    THEN rec.entries[1]
    ELSE SizeEntries(rec.entries)[1].val

\* A positional record whose first element Discrete::new panics on: the panic
\* comes before the elements after it are looked at.
PanicsOnFirst(rec) ==
    /\ rec.enc = "seq"
    /\ Len(rec.entries) > 1
    /\ Discrete_new(rec.entries[1]).tag = "Panic"

\* The outcome of the last deserialize; `checked` says whether the
\* deserializer's refusal of unread elements is taken into account.
DeserializeOutcome(missing, checked) ==
    last.op = "deserialize" =>
        LET extra == IF checked THEN ExtraKinds(last.fmt) ELSE {}
            kinds == KindsFor(last.arg, missing, extra)
        IN  IF kinds # {} /\ ~ PanicsOnFirst(last.arg)
            THEN last.ret.tag = "Err" /\ last.ret.kind \in kinds
            ELSE last.ret = Discrete_new(SizeRead(last.arg))

\* C5 as stated: in either encoding a record without size fails with a
\* "missing field" error, one with size twice with a "duplicate field" error,
\* one with another field name with an "unknown field" error, and every other
\* record gives exactly Discrete::new(size).
C5_AsStated == DeserializeOutcome("missing_field", FALSE)

\* C5 as amended: as stated for named records; a positional record without
\* its size element fails with an "invalid length" error; a positional record
\* with elements after size gives Discrete::new(size) for its first element
\* (a panic for 0), which a deserializer that checks that the sequence was
\* consumed then replaces by its error ("trailing characters" or "invalid
\* length"); a positional record of exactly one element gives exactly
\* Discrete::new(size).
C5_DeserializeErrors == DeserializeOutcome("invalid_length", TRUE)

C5_Witness ==
    /\ last.op = "deserialize"
    /\ last.arg.enc = "seq"
    /\ Len(last.arg.entries) = 0
    /\ last.ret = Err("invalid_length", 0)

\* C6: Binary has card() Finite(2) and its range() yields exactly the two
\* values false and true.
C6_BinaryRangeYieldsBoth ==
    space.kind = "Binary" =>
        /\ last.op = "card" => last.ret = Ok(Finite(2))
        /\ last.op = "range" => BoolRangeValues(last.ret.val) = {FALSE, TRUE}

\* C7: for a Discrete of size > 0, range() yields 0, 1, ..., size - 1 in
\* ascending order, each once; these are the values contains() accepts; the
\* first is inf() and the last is sup(); and another call of range() returns
\* the same range.
C7_DiscreteRange ==
    (space.kind = "Discrete" /\ space.size > 0 /\ last.op = "range") =>
        LET seq == RangeSeq(last.ret.val)
        IN  /\ Len(seq) = space.size
            /\ \A i \in 1..Len(seq) : seq[i] = i - 1
            /\ Yielded(last.ret.val) = {v \in Usize : Discrete_contains(space, v)}
            /\ Some(seq[1]) = Discrete_inf(space)
            /\ Some(seq[Len(seq)]) = Discrete_sup(space, build)
            /\ ~ ENABLED (Range /\ last'.ret # last.ret)

C7_Witness ==
    /\ space.kind = "Discrete"
    /\ space.size >= 3
    /\ last.op = "range"
    /\ Len(RangeSeq(last.ret.val)) = space.size

\* A positive f64: not NaN, sign bit clear, and not a zero.
F64Positive(x) == x.cls # "nan" /\ x.sign = 0 /\ (x.cls = "inf" \/ x.mag > 0)

\* A zero or negative f64.
F64ZeroOrNegative(x) == x.cls # "nan" /\ (x.sign = 1 \/ (x.cls = "num" /\ x.mag = 0))

\* C8: Binary's map on a bool is the identity; its map on an f64 always
\* returns a bool, true for every positive input and false for zero and for
\* every negative input (so 1.0 gives true, 0.0 and -1.0 give false).
C8_BinaryMaps ==
    space.kind = "Binary" =>
        /\ last.op = "map_bool" => last.ret = Ok(last.arg)
        /\ last.op = "map_f64" =>
               /\ last.ret.tag = "Ok"
               /\ last.ret.val \in BOOLEAN
               /\ F64Positive(last.arg) => last.ret.val = TRUE
               /\ F64ZeroOrNegative(last.arg) => last.ret.val = FALSE
               /\ last.arg = F64Lit(1) => last.ret.val = TRUE
               /\ last.arg = F64Lit(0) => last.ret.val = FALSE
               /\ last.arg = F64Lit(0 - 1) => last.ret.val = FALSE

C8_Witness ==
    /\ space.kind = "Binary"
    /\ last.op = "map_f64"
    /\ last.arg = F64Lit(0)
    /\ last.ret = Ok(FALSE)

\* C9: Naturals has card() Infinite, inf() Some(0), sup() None, and contains(v)
\* true for every v.
C9_Naturals ==
    space.kind = "Naturals" =>
        /\ last.op = "card" => last.ret = Ok(Infinite)
        /\ last.op = "inf" => last.ret = Some(0)
        /\ last.op = "sup" => last.ret = None
        /\ last.op = "contains" => last.ret = Ok(TRUE)

C9_Witness ==
    /\ space.kind = "Naturals"
    /\ last.op = "sup"
    /\ last.ret = None

\* C10: for size 0 the result is a fatal error (Discrete::new(0) panics, so
\* no Discrete of size 0 is ever there to be asked), and sup() never returns
\* Some(v) for an empty Discrete: whenever sup() returns Some(v) the space is
\* non-empty and v is size - 1, never a wrapped-around value.
C10_EmptyDiscreteSup ==
    /\ (last.op = "Discrete::new" /\ last.arg = 0) =>
           (last.ret.tag = "Panic" /\ status = "panicked")
    /\ (space.kind = "Discrete" /\ last.op = "sup") =>
           /\ last.ret.tag \in {"Some", "None", "Panic"}
           /\ space.size = 0 => last.ret.tag \in {"None", "Panic"}
           /\ last.ret.tag = "Some" => last.ret.val = space.size - 1

C10_Witness ==
    /\ last.op = "Discrete::new"
    /\ last.arg = 0
    /\ last.ret.tag = "Panic"
    /\ status = "panicked"

====
